---- MODULE Spec2Model ----
(***************************************************************************)
(* A model of the wireless dependency-injection container (package         *)
(* wireless): provider registration, Resolve (bindings, values, factory    *)
(* matching, dependency wiring, cycle detection and depths), the lazy,     *)
(* memoizing InjectAs / Inject requests, and Clean.                        *)
(*                                                                         *)
(* Type tokens (reflect.Type) are strings.  A provider node               *)
(* (a providerFunc) is referred to by its output type: the Provider Map    *)
(* holds exactly one node per output type and only nodes of the map are   *)
(* ever referenced.                                                        *)
(***************************************************************************)
EXTENDS Integers, Sequences, FiniteSets, TLC

\* ------------------------------------------------------------- bounds
\* Longest list of factory / value / binding descriptors in the first family
\* of behaviours.
MaxFuncs == 3
MaxValues == 1
MaxBindings == 1
\* Most descriptors of all kinds together in the second family of behaviours.
MaxProviders == 3
\* Most factory failures of one behaviour.
MaxFailures == 1
\* Resolve is not called again once the container has handed out this many ids.
MaxId == 6

\* ------------------------------------------------------------- values
\* An invalid reflect.Value / a nil interface.
Nil == <<"nil">>

\* reflect.TypeOf(i) for the container itself, and the container as a value.
TypeInjector == "*Injector"
SelfValue == <<"self">>

\* The instance a Value descriptor carries: n tells instances of a type apart.
ValueOf(t, n) == <<"val", t, n>>
\* The primary output of the k-th invocation of the node producing t.
OutOf(t, k) == <<"out", t, k>>
\* The cleanup callback returned by the k-th invocation of that node.
CleanupOf(t, k) == <<"cleanup", t, k>>

\* An error value: its kind and what it carries (type names, a trace, the
\* accumulated errors).
Err(kind, info) == [kind |-> kind, info |-> info]
NoErr == Err("nil", <<>>)
ErrAlreadyResolved == Err("ErrAlreadyResolved", <<>>)
ErrNotResolved == Err("ErrNotResolved", <<>>)
ErrAlreadyCleaned == Err("ErrAlreadyCleaned", <<>>)

\* ------------------------------------------------------------- helpers
Range(s) == {s[j] : j \in 1..Len(s)}

maxInt(i, j) == IF i > j THEN i ELSE j

\* All orders in which the elements of the set S can be listed.
RECURSIVE Perms(_)
Perms(S) ==
  IF S = {} THEN {<<>>}
  ELSE UNION {{<<x>> \o p : p \in Perms(S \ {x})} : x \in S}

\* The positions of s whose element satisfies nothing but equality with x.
CountOf(s, x) == Cardinality({j \in 1..Len(s) : s[j] = x})

\* ------------------------------------------------------------- state
VARIABLES
  id,                       \* Injector.id
  resolved,                 \* Injector.resolved
  cleaned,                  \* Injector.cleaned
  values,                   \* Injector.values: type -> instance
  providersMap,             \* Injector.providersMap: output type -> node
  providerFuncs,            \* Injector.providerFuncs: the execution log
  bindings,                 \* Injector.bindings: interface -> concrete type
  valueProviders,           \* the registered descriptors, by kind
  bindingProviders,
  funcProviders,
  interfaceValueProviders,
  errors,                   \* Injector.errors (multiError)
  callLog,                  \* history: every factory invocation, in order
  cleanupLog,               \* history: every cleanup invocation, in order
  last,                     \* history: the last call and what it returned
  fatal,                    \* history: a Resolve returned a configuration
                            \* or cycle error
  procs                     \* the calls in progress, one per caller

vars == <<id, resolved, cleaned, values, providersMap, providerFuncs, bindings,
          valueProviders, bindingProviders, funcProviders,
          interfaceValueProviders, errors, callLog, cleanupLog, last, fatal,
          procs>>

registry == <<valueProviders, bindingProviders, funcProviders,
              interfaceValueProviders>>
tables == <<id, values, providersMap, bindings, errors>>

\* The goroutines that call into the container, and a caller that is in no
\* call.
Callers == {"g1", "g2"}
Idle == [pc |-> "idle", elem |-> "", providers |-> <<>>, k |-> 0,
         seen |-> <<>>]

\* New()
Init ==
  /\ id = 0
  /\ resolved = FALSE
  /\ cleaned = FALSE
  /\ values = (TypeInjector :> SelfValue)
  /\ providersMap = <<>>
  /\ providerFuncs = <<>>
  /\ bindings = <<>>
  /\ valueProviders = <<>>
  /\ bindingProviders = <<>>
  /\ funcProviders = <<>>
  /\ interfaceValueProviders = <<>>
  /\ errors = <<>>
  /\ callLog = <<>>
  /\ cleanupLog = <<>>
  /\ last = [op |-> "New", arg |-> <<>>, err |-> NoErr, val |-> <<>>]
  /\ fatal = FALSE
  /\ procs = [g \in Callers |-> Idle]

\* ------------------------------------------------------------- types
\* The host program's types: concrete types, interface types, and which
\* concrete type implements which interface.
Concrete == {"a", "b", "c", "d"}
Interfaces == {"i"}
Implements(to, it) == to \in {"b", "c"} /\ it = "i"

\* reflect.TypeOf of an argument that is a pointer to elem (new(T)) or a plain
\* value of type elem: Kind() = Ptr and Elem().
TypeArg(ptr, elem) == [ptr |-> ptr, elem |-> elem]
\* The type token of a pointer to t.
PtrType(t) == "*" \o t
\* reflect.TypeOf(x) as a token.
TypeOfArg(a) == IF a.ptr THEN PtrType(a.elem) ELSE a.elem
\* reflect.ValueOf(v).Type() of an instance a descriptor carries.
TypeOfValue(v) == v[2]

\* ------------------------------------------------------------- descriptors
\* Value(v), Bind(iface, to), InterfaceValue(iface, value), Func(in), each
\* with the ifNotExists option IfNotExists sets.
Value(v, ine) == [v |-> v, ifNotExists |-> ine]
Bind(iface, to, ine) == [iface |-> iface, to |-> to, ifNotExists |-> ine]
InterfaceValue(iface, v, ine) == [iface |-> iface, value |-> v, ifNotExists |-> ine]
\* A factory by its signature: shape is the return shape, one of
\*   "NotFunc"      the payload is not a function
\*   "T"            (T)
\*   "TErr"         (T, error)
\*   "TCleanup"     (T, func())
\*   "TBad"         (T, X), X neither error nor func()
\*   "TCleanupErr"  (T, func(), error)
\*   "TBadErr"      (T, X, error), X not func()
\*   "TCleanupBad"  (T, func(), X), X not error
\*   "None"         no or more than three results
Func(ins, out, shape, ine) ==
  [inTypes |-> ins, out |-> out, shape |-> shape, ifNotExists |-> ine]
IfNotExists(p) == [p EXCEPT !.ifNotExists = TRUE]

\* Injector.Provide / addProviders: the descriptor is appended to the list of
\* its kind.  Nothing is validated here.
Provide(kind, p) ==
  /\ valueProviders' =
       IF kind = "value" THEN Append(valueProviders, p) ELSE valueProviders
  /\ bindingProviders' =
       IF kind = "binding" THEN Append(bindingProviders, p) ELSE bindingProviders
  /\ funcProviders' =
       IF kind = "func" THEN Append(funcProviders, p) ELSE funcProviders
  /\ interfaceValueProviders' =
       IF kind = "interfaceValue" THEN Append(interfaceValueProviders, p)
       ELSE interfaceValueProviders
  /\ last' = [op |-> "Provide", arg |-> <<kind>>, err |-> NoErr, val |-> <<>>]
  /\ UNCHANGED <<tables, resolved, cleaned, providerFuncs, callLog, cleanupLog,
                 fatal, procs>>

\* ------------------------------------------------------------- Resolve
\* The part of the container Resolve works on.
Tables == [id |-> id, values |-> values, providersMap |-> providersMap,
           bindings |-> bindings, errors |-> errors]

AddError(s, e) == [s EXCEPT !.errors = Append(@, e)]

\* resolveBindingsFrom that skips every later binding of a bound interface
\* as if it were marked IfNotExists.
RECURSIVE resolveBindingsFrom_SkipDup(_, _, _)
resolveBindingsFrom_SkipDup(bps, j, s) ==
  IF j > Len(bps) THEN s
  ELSE
    LET binding == bps[j]
        it == binding.iface.elem
        to == binding.to.elem
        s1 ==
          IF ~binding.iface.ptr \/ ~binding.to.ptr
          THEN AddError(s, <<"binding not defined with new",
                             TypeOfArg(binding.iface), TypeOfArg(binding.to)>>)
          ELSE IF it \notin Interfaces
          THEN AddError(s, <<"binding not using interface", it, to>>)
          ELSE IF ~Implements(to, it)
          THEN AddError(s, <<"binding does not implement interface", it, to>>)
          ELSE IF it \in DOMAIN s.bindings THEN s
          ELSE [s EXCEPT !.bindings = (it :> to) @@ @]
    IN resolveBindingsFrom_SkipDup(bps, j + 1, s1)

\* Injector.resolveBindings, from descriptor j on.
RECURSIVE resolveBindingsFrom(_, _, _)
resolveBindingsFrom(bps, j, s) ==
  IF j > Len(bps) THEN s
  ELSE
    LET binding == bps[j]
        it == binding.iface.elem
        to == binding.to.elem
        s1 ==
          IF ~binding.iface.ptr \/ ~binding.to.ptr
          THEN AddError(s, <<"binding not defined with new",
                             TypeOfArg(binding.iface), TypeOfArg(binding.to)>>)
          ELSE IF it \notin Interfaces
          THEN AddError(s, <<"binding not using interface", it, to>>)
          ELSE IF ~Implements(to, it)
          THEN AddError(s, <<"binding does not implement interface", it, to>>)
          ELSE IF it \in DOMAIN s.bindings
          THEN IF binding.ifNotExists THEN s
               ELSE AddError(s, <<"binding already defined", it, to>>)
          ELSE [s EXCEPT !.bindings = (it :> to) @@ @]
    IN resolveBindingsFrom(bps, j + 1, s1)

resolveBindings(s) == resolveBindingsFrom(bindingProviders, 1, s)

\* Injector.resolveValues, from descriptor j on.
RECURSIVE resolveValuesFrom(_, _, _)
resolveValuesFrom(vps, j, s) ==
  IF j > Len(vps) THEN s
  ELSE
    LET vp == vps[j] IN
    IF vp.v = Nil THEN AddError(s, <<"input value provider is nil">>)
    ELSE
      LET rt == TypeOfValue(vp.v)
          s1 == IF rt \in DOMAIN s.values
                THEN AddError(s, <<"provider for type already exists", rt>>)
                ELSE [s EXCEPT !.values = (rt :> vp.v) @@ @]
      IN resolveValuesFrom(vps, j + 1, s1)

\* resolveValues that registers no value.
resolveValues_Skip(s) == s

resolveValues(s) ==
  IF Len(s.errors) > 0 THEN s ELSE resolveValuesFrom(valueProviders, 1, s)

\* Injector.resolveInterfaceValues, from descriptor j on.  The interface
\* argument is a pointer to the interface (new(I)); the table key is the type
\* of the argument itself.
RECURSIVE resolveInterfaceValuesFrom(_, _, _)
resolveInterfaceValuesFrom(ivps, j, s) ==
  IF j > Len(ivps) THEN s
  ELSE
    LET vp == ivps[j] IN
    IF vp.value = Nil THEN AddError(s, <<"input value provider is nil">>)
    ELSE
      LET it == TypeOfArg(vp.iface)
          tt == TypeOfValue(vp.value)
          s1 ==
            IF vp.iface.elem \notin Interfaces
            THEN AddError(s, <<"interface value not using interface", it, tt>>)
            ELSE IF tt # it
            THEN AddError(s, <<"interface value does not implement", it, tt>>)
            ELSE IF it \in DOMAIN s.values
            THEN AddError(s, <<"provider for type already exists", tt>>)
            ELSE [s EXCEPT !.values = (it :> vp.value) @@ @]
      IN resolveInterfaceValuesFrom(ivps, j + 1, s1)

resolveInterfaceValues(s) ==
  IF Len(s.errors) > 0 THEN s
  ELSE resolveInterfaceValuesFrom(interfaceValueProviders, 1, s)


\* A fresh providerFunc for descriptor j: matchProviderFuncs' literal
\* providerFunc{id, value, errOut: -1, cleanupOut: -1}, the rest zero.
providerFunc(nid, j, fp) ==
  [id |-> nid, value |-> j, inTypes |-> fp.inTypes, in |-> <<>>,
   dependencies |-> <<>>, out |-> fp.out, errOut |-> -1, cleanupOut |-> -1,
   outValue |-> Nil, cleanup |-> Nil, depth |-> 0]

\* The result indexes matchProviderFuncs derives from a valid return shape.
errOutOf(shape) ==
  CASE shape = "TErr" -> 1
    [] shape = "TCleanupErr" -> 2
    [] OTHER -> -1

cleanupOutOf(shape) ==
  CASE shape = "TCleanup" -> 1
    [] shape = "TCleanupErr" -> 1
    [] OTHER -> -1

ValidShapes == {"T", "TErr", "TCleanup", "TCleanupErr"}

\* Injector.matchProviderFuncs, from descriptor j on.  Every descriptor that
\* is a function takes the next id, also when it is rejected or skipped.
RECURSIVE matchProviderFuncsFrom(_, _, _)
matchProviderFuncsFrom(fps, j, s) ==
  IF j > Len(fps) THEN s
  ELSE
    LET fp == fps[j]
        s0 == [s EXCEPT !.id = @ + 1]
        pf == [providerFunc(s0.id, j, fp) EXCEPT
                 !.errOut = errOutOf(fp.shape),
                 !.cleanupOut = cleanupOutOf(fp.shape)]
        s1 ==
          IF fp.shape = "NotFunc"
          THEN AddError(s, <<"provider is not a function">>)
          ELSE IF fp.shape \notin ValidShapes
          THEN AddError(s0, <<"provider has invalid results", fp.shape>>)
          ELSE IF pf.out \in DOMAIN s0.providersMap
          THEN IF fp.ifNotExists THEN s0
               ELSE AddError(s0, <<"provider already registered for type", pf.out>>)
          ELSE [s0 EXCEPT !.providersMap = (pf.out :> pf) @@ @]
    IN matchProviderFuncsFrom(fps, j + 1, s1)

matchProviderFuncs(s) == matchProviderFuncsFrom(funcProviders, 1, s)

\* The resolved inputs of a node (providerFunc.in): a literal value, another
\* node, or another node reached through a binding; Unset before resolution.
Unset == [kind |-> "unset", f |-> "", v |-> Nil, boundAs |-> ""]
InValue(v, as) == [kind |-> "value", f |-> "", v |-> v, boundAs |-> as]
InProvider(f) == [kind |-> "provider", f |-> f, v |-> Nil, boundAs |-> ""]
boundProviderFunc(f, as) == [kind |-> "bound", f |-> f, v |-> Nil, boundAs |-> as]

\* How resolveProvidersDependencies resolves one input type: values first,
\* then the Provider Map, then one indirection through the bindings.
ResolveInput(s, in) ==
  IF in \in DOMAIN s.values THEN InValue(s.values[in], in)
  ELSE IF in \in DOMAIN s.providersMap THEN InProvider(in)
  ELSE IF in \in DOMAIN s.bindings /\ s.bindings[in] \in DOMAIN s.values
  THEN InValue(s.values[s.bindings[in]], in)
  ELSE IF in \in DOMAIN s.bindings /\ s.bindings[in] \in DOMAIN s.providersMap
  THEN boundProviderFunc(s.bindings[in], in)
  ELSE Unset

\* resolveInputsFrom that leaves an input without provider unresolved and
\* goes on.
RECURSIVE resolveInputsFrom_SkipMissing(_, _, _)
resolveInputsFrom_SkipMissing(s, p, j) ==
  IF j > Len(p.inTypes) THEN [p |-> [p EXCEPT !.depth = -1], missing |-> ""]
  ELSE
    LET r == ResolveInput(s, p.inTypes[j]) IN
    resolveInputsFrom_SkipMissing(s,
      [p EXCEPT !.in[j] = r,
                !.dependencies =
                   IF r.kind \in {"value", "unset"} THEN @ ELSE Append(@, r.f)],
      j + 1)

\* The inner loop of resolveProvidersDependencies for node p from input j on:
\* the node with in and dependencies filled as far as the loop got, and the
\* input type that has no provider ("" when every input was resolved).
RECURSIVE resolveInputsFrom(_, _, _)
resolveInputsFrom(s, p, j) ==
  IF j > Len(p.inTypes) THEN [p |-> [p EXCEPT !.depth = -1], missing |-> ""]
  ELSE
    LET r == ResolveInput(s, p.inTypes[j]) IN
    IF r.kind = "unset" THEN [p |-> p, missing |-> p.inTypes[j]]
    ELSE resolveInputsFrom(s,
           [p EXCEPT !.in[j] = r,
                     !.dependencies =
                        IF r.kind = "value" THEN @ ELSE Append(@, r.f)],
           j + 1)

\* Injector.resolveProvidersDependencies over the nodes in the order the map
\* iteration yields them, from position k on.
RECURSIVE resolveProvidersDependenciesFrom(_, _, _)
resolveProvidersDependenciesFrom(order, k, s) ==
  IF k > Len(order) THEN [s |-> s, err |-> NoErr]
  ELSE
    LET p0 == s.providersMap[order[k]]
        r == resolveInputsFrom(s,
               [p0 EXCEPT !.in = [j \in 1..Len(p0.inTypes) |-> Unset]], 1)
        s1 == [s EXCEPT !.providersMap[order[k]] = r.p]
    IN IF r.missing # ""
       THEN [s |-> s1, err |-> Err("no provider found", <<r.missing>>)]
       ELSE resolveProvidersDependenciesFrom(order, k + 1, s1)

resolveProvidersDependencies(order, s) ==
  resolveProvidersDependenciesFrom(order, 1, s)


\* checkCycles: a depth-first walk from node p (given by its output type).
\* c carries the nodes (for their depth), the visited and dfsVisited marks
\* (by node id), and the result: the trace and whether a cycle was found.
RECURSIVE checkCycles(_, _)
RECURSIVE checkCyclesDeps(_, _, _, _)
checkCycles(p, c) ==
  LET pid == c.pm[p].id IN
  checkCyclesDeps(p, 1, -1,
    [c EXCEPT !.visited = @ \cup {pid}, !.dfsVisited = @ \cup {pid}])

\* The loop of checkCycles over p.dependencies from position j on, max being
\* the largest dependency depth seen so far.
checkCyclesDeps(p, j, max, c) ==
  LET node == c.pm[p] IN
  IF j > Len(node.dependencies)
  THEN [c EXCEPT !.pm[p].depth = max + 1,
                 !.dfsVisited = @ \ {node.id},
                 !.trace = <<>>, !.hasCycle = FALSE]
  ELSE
    LET dep == node.dependencies[j] IN
    IF c.pm[dep].id \notin c.visited
    THEN LET r == checkCycles(dep, c) IN
         IF r.hasCycle THEN [r EXCEPT !.trace = Append(@, node.out)]
         ELSE checkCyclesDeps(p, j + 1, maxInt(max, r.pm[dep].depth), r)
    ELSE IF c.pm[dep].id \in c.dfsVisited
    THEN [c EXCEPT !.trace = <<c.pm[dep].out>>, !.hasCycle = TRUE]
    ELSE checkCyclesDeps(p, j + 1, maxInt(max, c.pm[dep].depth), c)

\* The node of the map with the given id (providers[id-1]).
NodeWithId(pm, k) == CHOOSE t \in DOMAIN pm : pm[t].id = k

\* checkAllFrom that starts the walk from the first node only.
checkAllFrom_FirstOnly(k, c) ==
  IF k > Cardinality(DOMAIN c.pm) THEN c
  ELSE checkCycles(NodeWithId(c.pm, k), c)

\* The loop of resolveProvideFunctions over providers[k-1 ..]: checkCycles
\* from every node not visited yet, stopping at the first cycle.
RECURSIVE checkAllFrom(_, _)
checkAllFrom(k, c) ==
  IF k > Cardinality(DOMAIN c.pm) THEN c
  ELSE IF k \in c.visited THEN checkAllFrom(k + 1, c)
  ELSE LET r == checkCycles(NodeWithId(c.pm, k), c) IN
       IF r.hasCycle THEN r ELSE checkAllFrom(k + 1, r)

\* Injector.resolveProvideFunctions.  providers is indexed by id-1 and has
\* len(providersMap) slots: a node whose id is larger makes the index
\* expression panic (index out of range).
resolveProvideFunctions(order, s) ==
  LET s1 == matchProviderFuncs(s) IN
  IF Len(s1.errors) > 0 THEN [s |-> s1, err |-> Err("config", s1.errors)]
  ELSE
    LET r == resolveProvidersDependencies(order, s1) IN
    IF r.err # NoErr THEN r
    ELSE IF \E t \in DOMAIN r.s.providersMap :
              r.s.providersMap[t].id > Cardinality(DOMAIN r.s.providersMap)
    THEN [s |-> r.s, err |-> Err("panic", <<"index out of range">>)]
    ELSE
      LET c == checkAllFrom(1, [pm |-> r.s.providersMap, visited |-> {},
                                dfsVisited |-> {}, trace |-> <<>>,
                                hasCycle |-> FALSE])
          s2 == [r.s EXCEPT !.providersMap = c.pm]
      IN IF c.hasCycle THEN [s |-> s2, err |-> Err("cycle", c.trace)]
         ELSE [s |-> s2, err |-> NoErr]

\* The body of Injector.Resolve after its three early returns.
resolveAll(order, s) ==
  resolveProvideFunctions(order,
    resolveValues(resolveInterfaceValues(resolveBindings(s))))

\* ResolveGuard with the resolved check before the cleaned check.
ResolveGuard_ResolvedFirst ==
  IF resolved THEN ErrAlreadyResolved
  ELSE IF cleaned THEN ErrAlreadyCleaned
  ELSE IF Len(errors) > 0 THEN Err("config", errors)
  ELSE NoErr

\* The three early returns of Injector.Resolve.
ResolveGuard ==
  IF cleaned THEN ErrAlreadyCleaned
  ELSE IF resolved THEN ErrAlreadyResolved
  ELSE IF Len(errors) > 0 THEN Err("config", errors)
  ELSE NoErr

\* The orders in which the iteration over the Provider Map can yield the
\* nodes Resolve is about to wire (no iteration after an early return).
MapOrders ==
  IF ResolveGuard # NoErr THEN {<<>>}
  ELSE Perms(DOMAIN matchProviderFuncs(Tables).providersMap)

\* Injector.Resolve.  order is the order in which the iteration over the
\* Provider Map in resolveProvidersDependencies yields the nodes.
Resolve ==
  /\ id < MaxId
  /\ \E order \in MapOrders :
       LET r == IF ResolveGuard # NoErr THEN [s |-> Tables, err |-> ResolveGuard]
                ELSE resolveAll(order, Tables)
       IN /\ id' = r.s.id
          /\ values' = r.s.values
          /\ providersMap' = r.s.providersMap
          /\ bindings' = r.s.bindings
          /\ errors' = r.s.errors
          /\ resolved' = (resolved \/ r.err = NoErr)
          /\ last' = [op |-> "Resolve", arg |-> <<>>, err |-> r.err, val |-> <<>>]
          /\ fatal' = (fatal \/ r.err.kind \in {"config", "cycle"})
  /\ UNCHANGED <<registry, cleaned, providerFuncs, callLog, cleanupLog, procs>>


\* ------------------------------------------------------------- requests
RECURSIVE getProviders(_, _)
RECURSIVE getProvidersDeps(_, _, _)
\* getProviders that lists the node before the nodes it needs.
getProviders_SelfFirst(pm, p) == <<p>> \o getProvidersDeps(pm, p, 1)

\* providerFunc.getProviders: the nodes p needs, dependencies first, p last
\* (a node shared by several dependents is listed once per path).
getProviders(pm, p) == Append(getProvidersDeps(pm, p, 1), p)

getProvidersDeps(pm, p, j) ==
  IF j > Len(pm[p].dependencies) THEN <<>>
  ELSE getProviders(pm, pm[p].dependencies[j]) \o getProvidersDeps(pm, p, j + 1)

\* What a factory call can return: its value with a cleanup callback (when
\* its signature has one), its value with a nil cleanup, or a non-nil error.
Outcomes(node) ==
  {"ok"} \cup (IF node.cleanupOut > 0 THEN {"nilCleanup"} ELSE {})
         \cup (IF node.errOut > 0 THEN {"err"} ELSE {})

\* The factory invocations recorded so far: of one node, and the failed ones.
CallsOf(calls, p) == Cardinality({k \in 1..Len(calls) : calls[k].node = p})
Failures(calls) == Cardinality({k \in 1..Len(calls) : ~calls[k].ok})

\* The argument executeNecessaryProviders passes for one resolved input.
ArgOf(pm, it) == IF it.kind = "value" THEN it.v ELSE pm[it.f].outValue

\* executeFrom without the check that skips a node that has its output.
RECURSIVE executeFrom_NoSkip(_, _, _, _)
executeFrom_NoSkip(providers, k, oracle, e) ==
  IF k > Len(providers) THEN [e |-> e, err |-> NoErr]
  ELSE
    LET p == providers[k]
        node == e.pm[p]
        n == CallsOf(e.calls, p) + 1
        ins == [j \in 1..Len(node.in) |-> ArgOf(e.pm, node.in[j])]
        res == oracle[p]
        call == [f |-> node.value, node |-> p, ins |-> ins, ok |-> res # "err"]
        e1 == [e EXCEPT !.calls = Append(@, call)]
    IN
    IF node.errOut > 0 /\ res = "err"
    THEN [e |-> e1, err |-> Err("factory", <<p>>)]
    ELSE executeFrom_NoSkip(providers, k + 1, oracle,
           [e1 EXCEPT
              !.pm[p].cleanup =
                 IF node.cleanupOut > 0 /\ res = "ok" THEN CleanupOf(p, n) ELSE @,
              !.pm[p].outValue = OutOf(p, n),
              !.log = Append(@, p)])

\* executeFrom that memoizes the output of a node whose factory returned an
\* error and logs the node before it returns the error.
RECURSIVE executeFrom_MemoFailed(_, _, _, _)
executeFrom_MemoFailed(providers, k, oracle, e) ==
  IF k > Len(providers) THEN [e |-> e, err |-> NoErr]
  ELSE
    LET p == providers[k]
        node == e.pm[p]
    IN
    IF node.outValue # Nil
    THEN executeFrom_MemoFailed(providers, k + 1, oracle, e)
    ELSE
      LET n == CallsOf(e.calls, p) + 1
          ins == [j \in 1..Len(node.in) |-> ArgOf(e.pm, node.in[j])]
          res == oracle[p]
          call == [f |-> node.value, node |-> p, ins |-> ins,
                   ok |-> res # "err"]
          e1 == [e EXCEPT !.calls = Append(@, call)]
      IN
      IF node.errOut > 0 /\ res = "err"
      THEN [e |-> [e1 EXCEPT !.pm[p].outValue = OutOf(p, n),
                             !.log = Append(@, p)],
            err |-> Err("factory", <<p>>)]
      ELSE executeFrom_MemoFailed(providers, k + 1, oracle,
             [e1 EXCEPT
                !.pm[p].cleanup =
                   IF node.cleanupOut > 0 /\ res = "ok" THEN CleanupOf(p, n)
                   ELSE @,
                !.pm[p].outValue = OutOf(p, n),
                !.log = Append(@, p)])

\* The loop of executeNecessaryProviders over providers from position k on.
\* e carries the nodes, the execution log and the history of calls; oracle
\* tells what each factory returns when it is called.
RECURSIVE executeFrom(_, _, _, _)
executeFrom(providers, k, oracle, e) ==
  IF k > Len(providers) THEN [e |-> e, err |-> NoErr]
  ELSE
    LET p == providers[k]
        node == e.pm[p]
    IN
    IF node.outValue # Nil THEN executeFrom(providers, k + 1, oracle, e)
    ELSE
      LET n == CallsOf(e.calls, p) + 1
          ins == [j \in 1..Len(node.in) |-> ArgOf(e.pm, node.in[j])]
          res == oracle[p]
          call == [f |-> node.value, node |-> p, ins |-> ins,
                   ok |-> res # "err"]
          e1 == [e EXCEPT !.calls = Append(@, call)]
      IN
      IF node.errOut > 0 /\ res = "err"
      THEN [e |-> e1, err |-> Err("factory", <<p>>)]
      ELSE executeFrom(providers, k + 1, oracle,
             [e1 EXCEPT
                !.pm[p].cleanup =
                   IF node.cleanupOut > 0 /\ res = "ok" THEN CleanupOf(p, n)
                   ELSE @,
                !.pm[p].outValue = OutOf(p, n),
                !.log = Append(@, p)])

\* Injector.executeNecessaryProviders
executeNecessaryProviders(pf, oracle, e) ==
  executeFrom(getProviders(e.pm, pf), 1, oracle, e)

\* Where injectAs finds the requested type: "value" with the instance,
\* "provider" with the node, or "none".
Lookup(elem) ==
  IF elem \in DOMAIN values THEN [kind |-> "value", v |-> values[elem], f |-> ""]
  ELSE IF elem \in DOMAIN providersMap THEN [kind |-> "provider", v |-> Nil, f |-> elem]
  ELSE IF elem \notin DOMAIN bindings THEN [kind |-> "none", v |-> Nil, f |-> ""]
  ELSE IF bindings[elem] \in DOMAIN values
  THEN [kind |-> "value", v |-> values[bindings[elem]], f |-> ""]
  ELSE IF bindings[elem] \in DOMAIN providersMap
  THEN [kind |-> "provider", v |-> Nil, f |-> bindings[elem]]
  ELSE [kind |-> "none", v |-> Nil, f |-> ""]

\* Injector.injectAs for a destination of type *elem: the new state, the
\* error, and the value stored in the destination (Nil when none is).
injectAs(elem, oracle, e) ==
  LET l == Lookup(elem) IN
  IF l.kind = "value" THEN [e |-> e, err |-> NoErr, val |-> l.v]
  ELSE IF l.kind = "none"
  THEN [e |-> e, err |-> Err("injector not found", <<elem>>), val |-> Nil]
  ELSE IF e.pm[l.f].outValue # Nil
  THEN [e |-> e, err |-> NoErr, val |-> e.pm[l.f].outValue]
  ELSE LET r == executeNecessaryProviders(l.f, oracle, e) IN
       IF r.err # NoErr THEN [e |-> r.e, err |-> r.err, val |-> Nil]
       ELSE [e |-> r.e, err |-> NoErr, val |-> r.e.pm[l.f].outValue]

\* Guard without the check of i.cleaned.
Guard_NoCleaned ==
  IF ~resolved THEN ErrNotResolved
  ELSE IF Len(errors) > 0 THEN Err("config", errors)
  ELSE NoErr

\* The checks InjectAs and Inject make before looking at their argument.
Guard ==
  IF ~resolved THEN ErrNotResolved
  ELSE IF cleaned THEN ErrAlreadyCleaned
  ELSE IF Len(errors) > 0 THEN Err("config", errors)
  ELSE NoErr

\* The part of the container a request works on.
Exec == [pm |-> providersMap, log |-> providerFuncs, calls |-> callLog]

\* SortedByDepth with the comparison turned around (descending depth).
SortedByDepth_Descending(pm, log) ==
  {q \in Perms(Range(log)) :
     \A j, k \in 1..Len(q) : j < k => pm[q[j]].depth >= pm[q[k]].depth}

\* What sort.Slice by depth can leave in the log: every order of its
\* entries that is ascending in depth (the sort is not stable).
SortedByDepth(pm, log) ==
  {q \in Perms(Range(log)) :
     \A j, k \in 1..Len(q) : j < k => pm[q[j]].depth <= pm[q[k]].depth}

\* The oracles a request may meet: one outcome for every node the request
\* can still call (none when the guard fails, and never a node that has its
\* output), a failure only while the bound on failures allows one.
Oracles ==
  {o \in [DOMAIN providersMap -> {"ok", "nilCleanup", "err"}] :
     \A p \in DOMAIN providersMap :
        /\ o[p] \in Outcomes(providersMap[p])
        /\ o[p] = "err" => Failures(callLog) < MaxFailures
        /\ (Guard # NoErr \/ providersMap[p].outValue # Nil) => o[p] = "ok"}

\* The arguments of InjectAs: nil, something that is no pointer, or a
\* pointer to a variable of type elem.
DestNil == [kind |-> "nil", elem |-> ""]
DestValue(t) == [kind |-> "value", elem |-> t]
DestPtr(t) == [kind |-> "ptr", elem |-> t]

\* Injector.InjectAs
InjectAs(as) ==
  \E oracle \in Oracles :
    LET r == IF Guard # NoErr THEN [e |-> Exec, err |-> Guard, val |-> Nil]
             ELSE IF as.kind = "nil"
             THEN [e |-> Exec, err |-> Err("input is nil", <<>>), val |-> Nil]
             ELSE IF as.kind # "ptr"
             THEN [e |-> Exec, err |-> Err("input is not a pointer", <<>>),
                   val |-> Nil]
             ELSE injectAs(as.elem, oracle, Exec)
    IN /\ providersMap' = r.e.pm
       /\ callLog' = r.e.calls
       /\ providerFuncs' \in
            IF r.err = NoErr THEN SortedByDepth(r.e.pm, r.e.log) ELSE {r.e.log}
       /\ last' = [op |-> "InjectAs", arg |-> <<as.elem>>, err |-> r.err,
                   val |-> <<r.val>>]
       /\ UNCHANGED <<registry, id, values, bindings, errors, resolved,
                      cleaned, cleanupLog, fatal, procs>>


\* A field of a destination struct: its type, whether it is exported, and
\* whether it carries the tag wireless:"-".  Zero is a field's prior value.
Field(t, exported, skip) == [type |-> t, exported |-> exported, skip |-> skip]
Zero == <<"zero">>
\* The arguments of Inject: nil, a pointer to something that is no struct,
\* or a pointer to a struct with the given fields.
InNil == [kind |-> "nil", fields |-> <<>>]
InNotStruct == [kind |-> "notStruct", fields |-> <<>>]
InStruct(fields) == [kind |-> "struct", fields |-> fields]

\* injectFieldsFrom that does not look at the tag wireless:"-".
RECURSIVE injectFieldsFrom_NoTag(_, _, _, _, _, _)
injectFieldsFrom_NoTag(fields, j, oracle, e, dest, set) ==
  IF j > Len(fields) THEN [e |-> e, err |-> NoErr, val |-> dest, set |-> set]
  ELSE IF ~fields[j].exported
  THEN injectFieldsFrom_NoTag(fields, j + 1, oracle, e, dest, set)
  ELSE LET r == injectAs(fields[j].type, oracle, e) IN
       IF r.err # NoErr
       THEN [e |-> r.e, err |-> r.err, val |-> dest, set |-> set]
       ELSE injectFieldsFrom_NoTag(fields, j + 1, oracle, r.e,
              [dest EXCEPT ![j] = r.val],
              set \cup {<<fields[j].type, r.val>>})

\* The loop of Inject over the fields from field j on.  dest holds the
\* fields' values, set holds the (type, instance) pairs written so far.
RECURSIVE injectFieldsFrom(_, _, _, _, _, _)
injectFieldsFrom(fields, j, oracle, e, dest, set) ==
  IF j > Len(fields) THEN [e |-> e, err |-> NoErr, val |-> dest, set |-> set]
  ELSE IF ~fields[j].exported \/ fields[j].skip
  THEN injectFieldsFrom(fields, j + 1, oracle, e, dest, set)
  ELSE LET r == injectAs(fields[j].type, oracle, e) IN
       IF r.err # NoErr
       THEN [e |-> r.e, err |-> r.err, val |-> dest, set |-> set]
       ELSE injectFieldsFrom(fields, j + 1, oracle, r.e,
              [dest EXCEPT ![j] = r.val],
              set \cup {<<fields[j].type, r.val>>})

\* Injector.Inject
Inject(in) ==
  \E oracle \in Oracles :
    LET zero == [j \in 1..Len(in.fields) |-> Zero]
        r == IF Guard # NoErr
             THEN [e |-> Exec, err |-> Guard, val |-> zero, set |-> {}]
             ELSE IF in.kind = "nil"
             THEN [e |-> Exec, err |-> Err("input is nil", <<>>),
                   val |-> zero, set |-> {}]
             ELSE IF in.kind # "struct"
             THEN [e |-> Exec, err |-> Err("input is not a struct", <<>>),
                   val |-> zero, set |-> {}]
             ELSE injectFieldsFrom(in.fields, 1, oracle, Exec, zero, {})
    IN /\ providersMap' = r.e.pm
       /\ callLog' = r.e.calls
       /\ providerFuncs' \in
            IF r.err = NoErr THEN SortedByDepth(r.e.pm, r.e.log) ELSE {r.e.log}
       /\ last' = [op |-> "Inject", arg |-> in.fields, err |-> r.err,
                   val |-> r.val]
       /\ UNCHANGED <<registry, id, values, bindings, errors, resolved,
                      cleaned, cleanupLog, fatal, procs>>

\* ------------------------------------------------------------- Clean
\* cleanFrom walking the log front to back.
RECURSIVE cleanFrom_Forward(_, _, _)
cleanFrom_Forward(pm, log, j) ==
  IF j < 1 THEN <<>>
  ELSE IF pm[log[j]].cleanup = Nil THEN cleanFrom_Forward(pm, log, j - 1)
  ELSE cleanFrom_Forward(pm, log, j - 1) \o <<pm[log[j]].cleanup>>

\* The loop of Clean from position j of the log down to 1: the cleanup
\* callbacks it invokes, in order.
RECURSIVE cleanFrom(_, _, _)
cleanFrom(pm, log, j) ==
  IF j < 1 THEN <<>>
  ELSE IF pm[log[j]].cleanup = Nil THEN cleanFrom(pm, log, j - 1)
  ELSE <<pm[log[j]].cleanup>> \o cleanFrom(pm, log, j - 1)

\* Clean without the early return on i.cleaned.
Clean_Always ==
  LET ran == cleanFrom(providersMap, providerFuncs, Len(providerFuncs)) IN
  /\ cleanupLog' = cleanupLog \o ran
  /\ cleaned' = TRUE
  /\ last' = [op |-> "Clean", arg |-> <<>>, err |-> NoErr, val |-> ran]
  /\ UNCHANGED <<registry, tables, resolved, providerFuncs, callLog, fatal,
                 procs>>

\* Injector.Clean.  last.val holds the cleanup callbacks this call invoked.
Clean ==
  LET ran == IF cleaned THEN <<>>
             ELSE cleanFrom(providersMap, providerFuncs, Len(providerFuncs))
  IN
  /\ cleanupLog' = cleanupLog \o ran
  /\ cleaned' = TRUE
  /\ last' = [op |-> "Clean", arg |-> <<>>, err |-> NoErr, val |-> ran]
  /\ UNCHANGED <<registry, tables, resolved, providerFuncs, callLog, fatal,
                 procs>>

\* ------------------------------------------------------------- concurrency
\* InjectAs and Clean as several goroutines run them.  InjectAs holds the
\* read lock of i.lock from its first line to its return, so requests run
\* side by side; Clean reads i.cleaned before it takes the write lock.  A
\* caller's record holds where it is: "exec" at the head of the loop of
\* executeNecessaryProviders (position k of providers), "call" past the
\* IsValid test and about to call the factory, "cleanWait" past Clean's test
\* of i.cleaned and waiting for the write lock.
Readers == {g \in Callers : procs[g].pc \in {"exec", "call"}}

\* InjectAs up to the loop of executeNecessaryProviders; a call that needs
\* no node executed runs to its return.
InjectAsEnter(g, as) ==
  /\ procs[g].pc = "idle"
  /\ LET l == Lookup(as.elem)
         done == \/ Guard # NoErr
                 \/ as.kind # "ptr"
                 \/ l.kind # "provider"
                 \/ providersMap[l.f].outValue # Nil
         r == IF Guard # NoErr THEN [e |-> Exec, err |-> Guard, val |-> Nil]
              ELSE IF as.kind = "nil"
              THEN [e |-> Exec, err |-> Err("input is nil", <<>>), val |-> Nil]
              ELSE IF as.kind # "ptr"
              THEN [e |-> Exec, err |-> Err("input is not a pointer", <<>>),
                    val |-> Nil]
              ELSE injectAs(as.elem, [p \in DOMAIN providersMap |-> "ok"], Exec)
     IN IF done
        THEN /\ providerFuncs' \in
                  IF r.err = NoErr THEN SortedByDepth(providersMap, providerFuncs)
                  ELSE {providerFuncs}
             /\ last' = [op |-> "InjectAs", arg |-> <<as.elem>>,
                         err |-> r.err, val |-> <<r.val>>]
             /\ UNCHANGED procs
        ELSE /\ procs' = [procs EXCEPT ![g] =
                            [pc |-> "exec", elem |-> as.elem,
                             providers |-> getProviders(providersMap, l.f),
                             k |-> 1, seen |-> <<>>]]
             /\ UNCHANGED <<providerFuncs, last>>
  /\ UNCHANGED <<registry, tables, resolved, cleaned, callLog, cleanupLog,
                 fatal>>

\* The head of the loop of executeNecessaryProviders: past the last node the
\* call stores the output of the requested node, sorts the log and returns;
\* a node that has its output is skipped; any other node is about to be
\* called.
executeNext(g) ==
  LET me == procs[g] IN
  /\ me.pc = "exec"
  /\ IF me.k > Len(me.providers)
     THEN /\ providerFuncs' \in SortedByDepth(providersMap, providerFuncs)
          /\ last' = [op |-> "InjectAs", arg |-> <<me.elem>>, err |-> NoErr,
                      val |-> <<providersMap[me.providers[Len(me.providers)]].outValue>>]
          /\ procs' = [procs EXCEPT ![g] = Idle]
     ELSE /\ procs' = [procs EXCEPT ![g] =
                         IF providersMap[me.providers[me.k]].outValue # Nil
                         THEN [me EXCEPT !.k = @ + 1]
                         ELSE [me EXCEPT !.pc = "call", !.seen = providerFuncs]]
          /\ UNCHANGED <<providerFuncs, last>>
  /\ UNCHANGED <<registry, tables, resolved, cleaned, callLog, cleanupLog,
                 fatal>>

\* The rest of the loop body: the factory is called; its error ends the
\* request; otherwise the cleanup and the output are stored and the node is
\* appended to the log.  The append is not synchronized with the appends of
\* other requests: it extends the log as it is now or as it was when this
\* caller last looked.
executeCall(g) ==
  LET me == procs[g]
      p == me.providers[me.k]
      node == providersMap[p]
      n == CallsOf(callLog, p) + 1
      ins == [j \in 1..Len(node.in) |-> ArgOf(providersMap, node.in[j])]
  IN
  /\ me.pc = "call"
  /\ \E res \in Outcomes(node) :
       /\ res = "err" => Failures(callLog) < MaxFailures
       /\ callLog' = Append(callLog, [f |-> node.value, node |-> p,
                                      ins |-> ins, ok |-> res # "err"])
       /\ IF res = "err"
          THEN /\ last' = [op |-> "InjectAs", arg |-> <<me.elem>>,
                           err |-> Err("factory", <<p>>), val |-> <<Nil>>]
               /\ procs' = [procs EXCEPT ![g] = Idle]
               /\ UNCHANGED <<providersMap, providerFuncs>>
          ELSE /\ providersMap' =
                    [providersMap EXCEPT
                       ![p].cleanup =
                          IF node.cleanupOut > 0 /\ res = "ok"
                          THEN CleanupOf(p, n) ELSE @,
                       ![p].outValue = OutOf(p, n)]
               /\ providerFuncs' \in
                    {Append(providerFuncs, p), Append(me.seen, p)}
               /\ procs' = [procs EXCEPT ![g] =
                              [me EXCEPT !.pc = "exec", !.k = @ + 1]]
               /\ UNCHANGED last
  /\ UNCHANGED <<registry, id, values, bindings, errors, resolved, cleaned,
                 cleanupLog, fatal>>

\* Clean up to its request for the write lock: the test of i.cleaned.
CleanEnter(g) ==
  /\ procs[g].pc = "idle"
  /\ IF cleaned
     THEN /\ last' = [op |-> "Clean", arg |-> <<>>, err |-> NoErr, val |-> <<>>]
          /\ UNCHANGED procs
     ELSE /\ procs' = [procs EXCEPT ![g] = [Idle EXCEPT !.pc = "cleanWait"]]
          /\ UNCHANGED last
  /\ UNCHANGED <<registry, tables, resolved, cleaned, providerFuncs, callLog,
                 cleanupLog, fatal>>

\* Clean under the write lock, which it gets when no request holds the read
\* lock: the walk over the log and the assignment of i.cleaned.
CleanLocked(g) ==
  LET ran == cleanFrom(providersMap, providerFuncs, Len(providerFuncs)) IN
  /\ procs[g].pc = "cleanWait"
  /\ Readers = {}
  /\ cleanupLog' = cleanupLog \o ran
  /\ cleaned' = TRUE
  /\ last' = [op |-> "Clean", arg |-> <<>>, err |-> NoErr, val |-> ran]
  /\ procs' = [procs EXCEPT ![g] = Idle]
  /\ UNCHANGED <<registry, tables, resolved, providerFuncs, callLog, fatal>>

\* ------------------------------------------------------------- behaviours
\* The container as New() leaves it: no Resolve has built anything yet.
Fresh ==
  /\ ~resolved
  /\ id = 0
  /\ errors = <<>>
  /\ DOMAIN bindings = {}
  /\ DOMAIN values = {TypeInjector}

\* Registration is complete before Resolve builds the tables.
ProvideFunc(p) == Fresh /\ Provide("func", p)
ProvideValue(p) == Fresh /\ Provide("value", p)
ProvideBinding(p) == Fresh /\ Provide("binding", p)
ProvideInterfaceValue(p) == Fresh /\ Provide("interfaceValue", p)

\* The factories of the first family of behaviours: c takes the container,
\* b takes the interface i (bound to c), a takes b and c, so that c is
\* shared by a and b.
NewC == Func(<<TypeInjector>>, "c", "TCleanupErr", FALSE)
NewB == Func(<<"i">>, "b", "TCleanup", FALSE)
NewA == Func(<<"b", "c">>, "a", "TCleanupErr", FALSE)
GraphFuncs == {NewA, NewB, NewC}
GraphValues == {Value(ValueOf("d", 1), FALSE)}
GraphBindings == {Bind(TypeArg(TRUE, "i"), TypeArg(TRUE, "c"), FALSE)}
GraphDests ==
  {DestNil, DestValue("a")} \cup {DestPtr(t) : t \in {"a", "b", "c", "d", "i"}}
GraphStructs ==
  {InNil, InNotStruct,
   InStruct(<<Field("b", TRUE, FALSE), Field("c", TRUE, TRUE),
              Field("d", FALSE, FALSE), Field("a", TRUE, FALSE)>>)}

Next ==
  \/ \E p \in GraphFuncs : Len(funcProviders) < MaxFuncs /\ ProvideFunc(p)
  \/ \E p \in GraphValues : Len(valueProviders) < MaxValues /\ ProvideValue(p)
  \/ \E p \in GraphBindings :
       Len(bindingProviders) < MaxBindings /\ ProvideBinding(p)
  \/ Resolve
  \/ \E as \in GraphDests : InjectAs(as)
  \/ \E in \in GraphStructs : Inject(in)
  \/ Clean

Spec == Init /\ [][Next]_vars


\* The second family of behaviours: registries with duplicates, descriptors
\* marked IfNotExists, a dependency cycle (a takes b, b takes a), and a value
\* of a type a factory also produces.
CfgA == Func(<<"b">>, "a", "TCleanup", FALSE)
CfgB == Func(<<"a">>, "b", "TErr", FALSE)
CfgC == Func(<<>>, "c", "TCleanup", FALSE)
CfgC2 == IfNotExists(Func(<<>>, "c", "T", FALSE))
CfgD == Func(<<"c">>, "d", "TErr", FALSE)
ConfigFuncs == {CfgA, CfgB, CfgC, CfgC2, CfgD}
ConfigValues ==
  {Value(ValueOf("c", 1), FALSE), IfNotExists(Value(ValueOf("c", 2), FALSE))}
ConfigBindings ==
  {Bind(TypeArg(TRUE, "i"), TypeArg(TRUE, "c"), FALSE),
   Bind(TypeArg(TRUE, "i"), TypeArg(TRUE, "b"), FALSE)}
ConfigDests == {DestPtr(t) : t \in {"c", "d", "i"}}
ConfigStructs == {InStruct(<<Field("d", TRUE, FALSE), Field("c", TRUE, FALSE)>>)}

\* The descriptors registered so far, of all kinds.
Total ==
  Len(funcProviders) + Len(valueProviders) + Len(bindingProviders)
    + Len(interfaceValueProviders)

NextConfig ==
  \/ \E p \in ConfigFuncs : Total < MaxProviders /\ ProvideFunc(p)
  \/ \E p \in ConfigValues : Total < MaxProviders /\ ProvideValue(p)
  \/ \E p \in ConfigBindings : Total < MaxProviders /\ ProvideBinding(p)
  \/ Resolve
  \/ \E as \in ConfigDests : InjectAs(as)
  \/ \E in \in ConfigStructs : Inject(in)
  \/ Clean

SpecConfig == Init /\ [][NextConfig]_vars

\* The third family of behaviours: a plain chain, a takes b, b takes c.
NewA1 == Func(<<"b">>, "a", "TCleanup", FALSE)
NewB1 == Func(<<"c">>, "b", "TCleanupErr", FALSE)
ChainFuncs == {NewA1, NewB1, NewC}
ChainDests == {DestPtr(t) : t \in {"a", "b", "c"}}

NextChain ==
  \/ \E p \in ChainFuncs : Len(funcProviders) < MaxFuncs /\ ProvideFunc(p)
  \/ Resolve
  \/ \E as \in ChainDests : InjectAs(as)
  \/ Clean

SpecChain == Init /\ [][NextChain]_vars

\* The fourth family of behaviours: registration goes on after a Resolve that
\* failed, and Resolve is called again.  Every factory but one is marked
\* IfNotExists, a takes b and b takes a.
RetryFuncs == {IfNotExists(CfgA), IfNotExists(CfgB), CfgC, CfgC2}
RetryValues == {Value(ValueOf("b", 1), FALSE)}
RetryDests == {DestPtr(t) : t \in {"a", "b", "c"}}

NextRetry ==
  \/ \E p \in RetryFuncs : Total < MaxProviders /\ Provide("func", p)
  \/ \E p \in RetryValues : Total < MaxProviders /\ Provide("value", p)
  \/ Resolve
  \/ \E as \in RetryDests : InjectAs(as)

SpecRetry == Init /\ [][NextRetry]_vars

\* The fifth family of behaviours: descriptors of every kind, valid ones,
\* invalid ones and duplicates, among them a nil value and a value of the
\* container's own type.
ScanBindings ==
  {Bind(TypeArg(TRUE, "i"), TypeArg(TRUE, "c"), FALSE),
   Bind(TypeArg(TRUE, "i"), TypeArg(TRUE, "a"), FALSE)}
ScanValues ==
  {Value(ValueOf("a", 1), FALSE), Value(ValueOf("a", 2), FALSE),
   Value(ValueOf("d", 1), FALSE), Value(Nil, FALSE),
   Value(ValueOf(TypeInjector, 1), FALSE)}
ScanInterfaceValues ==
  {InterfaceValue(TypeArg(TRUE, "i"), ValueOf(PtrType("i"), 1), FALSE),
   InterfaceValue(TypeArg(TRUE, "i"), ValueOf("c", 1), FALSE)}
ScanFuncs ==
  {Func(<<>>, "b", "TBad", FALSE), Func(<<>>, "c", "T", FALSE)}
ScanDests == {DestPtr(t) : t \in {"a", "d", TypeInjector}}

NextScan ==
  \/ \E p \in ScanBindings : Total < MaxProviders /\ ProvideBinding(p)
  \/ \E p \in ScanValues : Total < MaxProviders /\ ProvideValue(p)
  \/ \E p \in ScanInterfaceValues :
       Total < MaxProviders /\ ProvideInterfaceValue(p)
  \/ \E p \in ScanFuncs : Total < MaxProviders /\ ProvideFunc(p)
  \/ Resolve
  \/ \E as \in ScanDests : InjectAs(as)

SpecScan == Init /\ [][NextScan]_vars

\* The sixth family of behaviours: two goroutines share a container whose
\* factories are b (takes c) and c.
ConcurrentFuncs == {NewB1, NewC}
ConcurrentDests == {DestPtr(t) : t \in {"b", "c"}}

NextConcurrent ==
  \/ \E p \in ConcurrentFuncs :
       Len(funcProviders) < MaxFuncs /\ ProvideFunc(p)
  \/ Resolve
  \/ \E g \in Callers : \E as \in ConcurrentDests : InjectAsEnter(g, as)
  \/ \E g \in Callers : executeNext(g)
  \/ \E g \in Callers : executeCall(g)
  \/ \E g \in Callers : CleanEnter(g)
  \/ \E g \in Callers : CleanLocked(g)

SpecConcurrent == Init /\ [][NextConcurrent]_vars

\* ------------------------------------------------------------- properties
\* What the registered descriptors say, read off the registry alone.
FuncOuts == {funcProviders[j].out : j \in 1..Len(funcProviders)}
ValueTypes ==
  {TypeInjector} \cup
  {TypeOfValue(valueProviders[j].v) :
     j \in {k \in 1..Len(valueProviders) : valueProviders[k].v # Nil}} \cup
  {TypeOfArg(interfaceValueProviders[j].iface) :
     j \in 1..Len(interfaceValueProviders)}
BoundTo(t) ==
  {bindingProviders[j].to.elem :
     j \in {k \in 1..Len(bindingProviders) : bindingProviders[k].iface.elem = t}}

\* Every descriptor is valid and no two descriptors provide the same type
\* or bind the same interface.
NoDuplicates ==
  /\ \A j, k \in 1..Len(funcProviders) :
       j # k => funcProviders[j].out # funcProviders[k].out
  /\ \A j \in 1..Len(valueProviders) :
       /\ valueProviders[j].v # Nil
       /\ TypeOfValue(valueProviders[j].v) # TypeInjector
       /\ \A k \in 1..Len(valueProviders) :
            j # k => TypeOfValue(valueProviders[j].v) # TypeOfValue(valueProviders[k].v)
  /\ \A j, k \in 1..Len(bindingProviders) :
       j # k => bindingProviders[j].iface.elem # bindingProviders[k].iface.elem
  /\ Len(interfaceValueProviders) = 0
AllValid ==
  /\ \A j \in 1..Len(funcProviders) : funcProviders[j].shape \in ValidShapes
  /\ \A j \in 1..Len(bindingProviders) :
       LET b == bindingProviders[j] IN
       b.iface.ptr /\ b.to.ptr /\ b.iface.elem \in Interfaces
       /\ Implements(b.to.elem, b.iface.elem)

\* The factory (by output type) that provides input type t, if any; an input
\* found among the values has none.
ProviderOf(t) ==
  IF t \in ValueTypes THEN {}
  ELSE IF t \in FuncOuts THEN {t}
  ELSE {u \in BoundTo(t) : u \notin ValueTypes /\ u \in FuncOuts}

\* Every factory input is provided by a value, a factory or a binding.
Satisfiable ==
  \A j \in 1..Len(funcProviders) :
    \A k \in 1..Len(funcProviders[j].inTypes) :
      LET t == funcProviders[j].inTypes[k] IN
      \/ t \in ValueTypes \/ t \in FuncOuts
      \/ \E u \in BoundTo(t) : u \in ValueTypes \/ u \in FuncOuts

\* The dependency edges between factories, (dependent, dependency), by
\* output type, and the transitive closure of a relation.
RegEdges ==
  UNION {{<<fp.out, u>> : u \in UNION {ProviderOf(t) : t \in Range(fp.inTypes)}} :
           fp \in Range(funcProviders)}

Compose(R) == {<<x[1][1], x[2][2]>> : x \in {y \in R \X R : y[1][2] = y[2][1]}}
RECURSIVE Closure(_)
Closure(R) == IF Compose(R) \subseteq R THEN R ELSE Closure(R \cup Compose(R))

Acyclic == \A e \in Closure(RegEdges) : e[1] # e[2]

\* The instance the container holds for a requested type: a value, the
\* memoized output of the node found directly or through a binding, or Nil.
Memo(t) ==
  LET l == Lookup(t) IN
  IF l.kind = "value" THEN l.v
  ELSE IF l.kind = "provider" THEN providersMap[l.f].outValue
  ELSE Nil

\* The last call was a Resolve that got past its lifecycle checks.
ResolveRan ==
  /\ last.op = "Resolve"
  /\ last.err \notin {ErrAlreadyResolved, ErrAlreadyCleaned}

\* A request handed out what the container holds for the type.
ServedFromMemo ==
  /\ (last.op = "InjectAs" /\ last.err = NoErr) =>
        (last.val[1] # Nil /\ last.val[1] = Memo(last.arg[1]))
  /\ last.op = "Inject" =>
        \A j \in 1..Len(last.arg) :
           last.val[j] # Zero => last.val[j] = Memo(last.arg[j].type)

\* C1 (state part): on an acyclic, satisfiable registry without duplicates
\* Resolve succeeds; every successful request hands out the instance the
\* container holds for the type; and while no factory has failed no factory
\* has been invoked more than once.
C1_State ==
  /\ (ResolveRan /\ AllValid /\ NoDuplicates /\ Satisfiable /\ Acyclic) =>
        (last.err = NoErr /\ resolved)
  /\ ServedFromMemo
  /\ Failures(callLog) = 0 =>
        \A p \in DOMAIN providersMap : CallsOf(callLog, p) <= 1

\* C1 (step part): the instance held for a type never changes once it is set.
C1_Step ==
  \A t \in Concrete \cup Interfaces \cup {TypeInjector} :
    Memo(t) # Nil => Memo(t)' = Memo(t)

\* C1: for every acyclic, fully satisfiable factory graph whose factories
\* return no error, Resolve succeeds, two requests for the same type return
\* the same memoized instance, and no factory is invoked more than once
\* (also a factory shared by several dependents).
C1_Memoized == [](C1_State) /\ [][C1_Step]_vars

\* C1's case: a, b and c are realized (c is shared by a and b), c has been
\* called once, and a later request for i was served with c's instance.
C1_Witness ==
  /\ resolved
  /\ Failures(callLog) = 0
  /\ DOMAIN providersMap = {"a", "b", "c"}
  /\ providersMap["a"].outValue # Nil
  /\ CallsOf(callLog, "c") = 1
  /\ last.op = "InjectAs" /\ last.arg = <<"i">> /\ last.err = NoErr
  /\ last.val = <<OutOf("c", 1)>>

\* The dependency edges between the nodes, (dependent, dependency).
DepEdges ==
  UNION {{<<p, providersMap[p].dependencies[j]>> :
            j \in 1..Len(providersMap[p].dependencies)} : p \in DOMAIN providersMap}
DependsOn(p, d) == <<p, d>> \in Closure(DepEdges)

\* The nodes that captured a cleanup callback, and where in the history of
\* cleanup invocations a node's callback was invoked (0: nowhere).
Captured == {p \in DOMAIN providersMap : providersMap[p].cleanup # Nil}
CleanedAt(p) ==
  IF providersMap[p].cleanup \in Range(cleanupLog)
  THEN CHOOSE j \in 1..Len(cleanupLog) : cleanupLog[j] = providersMap[p].cleanup
  ELSE 0

\* C2: after Clean, for any two nodes P and D that both captured a cleanup
\* callback and where P depends (directly or transitively) on D, P's cleanup
\* was invoked strictly before D's, whatever requests realized the nodes and
\* also when a request aborted with a factory error.
C2_DependentsFirst ==
  cleaned =>
    \A p, d \in Captured :
      DependsOn(p, d) =>
        (CleanedAt(p) > 0 /\ CleanedAt(d) > 0 /\ CleanedAt(p) < CleanedAt(d))

\* C2's case: c and b were realized, the request for a then aborted with a's
\* error (so the log was not sorted again), and Clean invoked b's cleanup
\* and then c's.
C2_Witness ==
  /\ cleaned
  /\ Len(callLog) = 3
  /\ callLog[3].node = "a" /\ ~callLog[3].ok
  /\ cleanupLog = <<CleanupOf("b", 1), CleanupOf("c", 1)>>

\* a depends on b alone and b on c alone, and all three captured a cleanup.
Chain ==
  /\ DOMAIN providersMap = {"a", "b", "c"}
  /\ DepEdges = {<<"a", "b">>, <<"b", "c">>}
  /\ Captured = {"a", "b", "c"}

\* C3 as stated: on the chain a -> b -> c, Clean invokes c's cleanup before
\* b's and b's before a's.
C3_AsStated ==
  (cleaned /\ Chain) =>
     (CleanedAt("c") < CleanedAt("b") /\ CleanedAt("b") < CleanedAt("a"))

\* C3 amended: on the chain a -> b -> c (a depends on b, b on c), all three
\* realized with cleanup callbacks, Clean invokes a's cleanup strictly before
\* b's and b's strictly before c's.
C3_ChainOrder ==
  (cleaned /\ Chain) =>
     /\ CleanedAt("a") > 0
     /\ CleanedAt("a") < CleanedAt("b")
     /\ CleanedAt("b") < CleanedAt("c")

\* C3's case: the chain is realized and Clean has run over it.
C3_Witness ==
  /\ cleaned /\ Chain
  /\ Len(cleanupLog) = 3
  /\ last.op = "Clean"

\* The nodes that have their output.
Executed == {p \in DOMAIN providersMap : providersMap[p].outValue # Nil}

\* C4 (state part): no cleanup has been invoked before Clean, none twice,
\* and once the container is cleaned the captured cleanup of every executed
\* node has been invoked exactly once; a Clean call invokes either all of
\* them or none.
C4_State ==
  /\ ~cleaned => cleanupLog = <<>>
  /\ \A j, k \in 1..Len(cleanupLog) : j # k => cleanupLog[j] # cleanupLog[k]
  /\ Range(providerFuncs) = Executed
  /\ cleaned =>
       /\ Range(cleanupLog) = {providersMap[p].cleanup : p \in Captured}
       /\ \A p \in Captured : CountOf(cleanupLog, providersMap[p].cleanup) = 1
  /\ last.op = "Clean" =>
       (last.err = NoErr /\ (last.val = <<>> \/ last.val = cleanupLog))

\* C4 (step part): on a cleaned container no call invokes a cleanup.
C4_Step == cleaned => (cleaned' /\ cleanupLog' = cleanupLog)

\* C4: Clean is idempotent for sequential calls: the first Clean invokes the
\* captured cleanup of every executed node exactly once, every later Clean
\* invokes none and reports no error, so each cleanup runs at most once.
C4_CleanIdempotent == [](C4_State) /\ [][C4_Step]_vars

\* C4's case: a Clean call that invoked nothing although three cleanups
\* were captured: a later Clean.
C4_Witness ==
  /\ cleaned
  /\ last.op = "Clean" /\ last.val = <<>>
  /\ Len(cleanupLog) = 3

\* C10 as stated: each provider node is invoked at most once in the
\* container's lifetime, also one whose factory returned an error.
C10_AtMostOnce ==
  \A p \in DOMAIN providersMap : CallsOf(callLog, p) <= 1

\* The factories on a dependency cycle, by output type.
CycleNodes == {e[1] : e \in {f \in Closure(RegEdges) : f[1] = f[2]}}

\* C5 as stated: when the factories' dependency edges contain a cycle,
\* Resolve returns an error, the container does not become Resolved, and a
\* cycle error's trace names every output type on the cycle.
C5_AsStated ==
  (ResolveRan /\ ~Acyclic) =>
     /\ last.err # NoErr
     /\ ~resolved
     /\ last.err.kind = "cycle" => CycleNodes \subseteq Range(last.err.info)

\* Descriptor k repeats what an earlier descriptor of its kind provides.
DupFunc(k) ==
  \E j \in 1..(k - 1) : funcProviders[j].out = funcProviders[k].out
DupValue(k) ==
  /\ valueProviders[k].v # Nil
  /\ \/ TypeOfValue(valueProviders[k].v) = TypeInjector
     \/ \E j \in 1..(k - 1) :
          /\ valueProviders[j].v # Nil
          /\ TypeOfValue(valueProviders[j].v) = TypeOfValue(valueProviders[k].v)
DupBinding(k) ==
  \E j \in 1..(k - 1) :
    bindingProviders[j].iface.elem = bindingProviders[k].iface.elem

\* Every descriptor is valid, every input is provided, there is no cycle,
\* and every descriptor that repeats an earlier one is marked IfNotExists.
ValidButForSkipped ==
  /\ AllValid /\ Satisfiable /\ Acyclic
  /\ Len(interfaceValueProviders) = 0
  /\ \A k \in 1..Len(valueProviders) : valueProviders[k].v # Nil
  /\ \A k \in 1..Len(funcProviders) : DupFunc(k) => funcProviders[k].ifNotExists
  /\ \A k \in 1..Len(valueProviders) : DupValue(k) => valueProviders[k].ifNotExists
  /\ \A k \in 1..Len(bindingProviders) :
       DupBinding(k) => bindingProviders[k].ifNotExists

\* C6 as stated: with a later factory for an already provided output type
\* marked IfNotExists, in an otherwise valid configuration, Resolve returns
\* nil, and the later factory is never invoked.
C6_AsStated ==
  /\ (ResolveRan /\ ValidButForSkipped /\ TRUE
        /\ \E k \in 1..Len(funcProviders) : DupFunc(k)) =>
       (last.err = NoErr /\ resolved)
  /\ \A n \in 1..Len(callLog) : ~DupFunc(callLog[n].f)

\* C7 as stated: with two values of one type, the later marked IfNotExists,
\* Resolve succeeds and the type is served with the earlier instance.
C7_AsStated ==
  /\ (ResolveRan /\ ValidButForSkipped
        /\ \E k \in 1..Len(valueProviders) : DupValue(k)) =>
       (last.err = NoErr /\ resolved)
  /\ \A k \in 1..Len(valueProviders) :
       (resolved /\ DupValue(k)) =>
          values[TypeOfValue(valueProviders[k].v)] # valueProviders[k].v

\* Some value, factory or binding repeats an earlier one without being
\* marked IfNotExists.
PlainDuplicate ==
  \/ \E k \in 1..Len(valueProviders) : DupValue(k) /\ ~valueProviders[k].ifNotExists
  \/ \E k \in 1..Len(funcProviders) : DupFunc(k) /\ ~funcProviders[k].ifNotExists
  \/ \E k \in 1..Len(bindingProviders) :
       DupBinding(k) /\ ~bindingProviders[k].ifNotExists

\* C8: registering, without IfNotExists, two values of one type, two
\* factories with one output type or two bindings for one interface makes
\* Resolve return a configuration error and leaves the container not
\* Resolved, so every later InjectAs / Inject fails and no factory is ever
\* executed.
C8_DuplicatesRejected ==
  PlainDuplicate =>
     /\ ~resolved
     /\ ResolveRan => (last.err.kind = "config" /\ Len(last.err.info) > 0)
     /\ last.op \in {"InjectAs", "Inject"} => last.err # NoErr
     /\ callLog = <<>>

\* C8's case: two bindings for the interface i, Resolve has reported the
\* duplicate, and a later request was refused.
C8_Witness ==
  /\ Len(bindingProviders) = 2
  /\ PlainDuplicate
  /\ Len(errors) = 1 /\ errors[1][1] = "binding already defined"
  /\ last.op = "InjectAs" /\ last.err = ErrNotResolved

\* C9 as stated: after a successful Resolve with no descriptor marked
\* IfNotExists, no type is both in the Value Table and a factory output in
\* the Provider Map.
C9_AsStated ==
  (/\ resolved
   /\ \A k \in 1..Len(funcProviders) : ~funcProviders[k].ifNotExists
   /\ \A k \in 1..Len(valueProviders) : ~valueProviders[k].ifNotExists
   /\ \A k \in 1..Len(bindingProviders) : ~bindingProviders[k].ifNotExists) =>
     DOMAIN values \cap DOMAIN providersMap = {}

\* C11 (state part): every factory invocation that returned no error left
\* its node memoized and in the execution log, and once the container is
\* cleaned the captured cleanup of every logged node has been invoked.
C11_State ==
  /\ \A k \in 1..Len(callLog) :
       callLog[k].ok =>
          /\ providersMap[callLog[k].node].outValue # Nil
          /\ callLog[k].node \in Range(providerFuncs)
  /\ cleaned =>
       \A p \in Range(providerFuncs) :
          providersMap[p].cleanup # Nil =>
             providersMap[p].cleanup \in Range(cleanupLog)

\* A request of this step ended with the error of a factory it invoked.
FactoryFailed == last'.err.kind = "factory" /\ callLog' # callLog

\* C11 (step part): in a request that a factory's error aborts, the failing
\* invocation is the last one of the request and the request returns its
\* error; the failing node has no output, no cleanup and no log entry; the
\* nodes invoked before it in the request are memoized and logged; and no
\* node memoized before loses anything.
C11_Step ==
  FactoryFailed =>
    LET p == last'.err.info[1]
        n == Len(callLog')
        earlier == {callLog'[k].node : k \in (Len(callLog) + 1)..(n - 1)}
    IN /\ last'.err = Err("factory", <<callLog'[n].node>>)
       /\ ~callLog'[n].ok
       /\ \A k \in (Len(callLog) + 1)..(n - 1) : callLog'[k].ok
       /\ providersMap'[p].outValue = Nil
       /\ providersMap'[p].cleanup = Nil
       /\ p \notin Range(providerFuncs')
       /\ \A q \in earlier :
            providersMap'[q].outValue # Nil /\ q \in Range(providerFuncs')
       /\ \A q \in Executed : providersMap'[q] = providersMap[q]
       /\ Range(providerFuncs) \subseteq Range(providerFuncs')

\* C11: when a factory returns a non-nil error during a request, the request
\* returns that error, no node after the failing one is invoked, the failing
\* node gets no memoized output and no captured cleanup, and every node
\* executed earlier in the request stays memoized and in the execution log,
\* so that a later Clean still invokes its cleanup.
C11_FailureAborts == [](C11_State) /\ [][C11_Step]_vars

\* C11's case: c and b were realized, the factory of a then failed and a was
\* left without output, and the later Clean invoked the cleanups of b and c.
C11_Witness ==
  /\ cleaned
  /\ last.op = "Clean"
  /\ last.val = <<CleanupOf("b", 1), CleanupOf("c", 1)>>
  /\ Failures(callLog) = 1
  /\ callLog[Len(callLog)].node = "a" /\ ~callLog[Len(callLog)].ok
  /\ providersMap["a"].outValue = Nil

\* Everything of the container but the record of the last call.
Container ==
  <<id, resolved, cleaned, values, providersMap, providerFuncs, bindings,
    valueProviders, bindingProviders, funcProviders, interfaceValueProviders,
    errors, callLog, cleanupLog>>

\* The call of this step was refused with error e and changed nothing.
Refused(e) == last'.err = e /\ Container' = Container

\* C12 (step part): what a call on a container in the wrong lifecycle state
\* returns and leaves alone.
C12_Step ==
  /\ (last'.op = "Resolve" /\ cleaned) => Refused(ErrAlreadyCleaned)
  /\ (last'.op = "Resolve" /\ resolved /\ ~cleaned) =>
        Refused(ErrAlreadyResolved)
  /\ (last'.op \in {"InjectAs", "Inject"} /\ ~resolved) =>
        Refused(ErrNotResolved)
  /\ (last'.op \in {"InjectAs", "Inject"} /\ resolved /\ cleaned) =>
        Refused(ErrAlreadyCleaned)
  /\ (last'.op = "Inject" /\ (~resolved \/ cleaned)) =>
        \A j \in 1..Len(last'.val) : last'.val[j] = Zero
  /\ (last'.op = "InjectAs" /\ (~resolved \/ cleaned)) => last'.val = <<Nil>>

\* C12: lifecycle misuse is reported and changes nothing: Resolve on a
\* Cleaned container returns ErrAlreadyCleaned and on a Resolved one
\* ErrAlreadyResolved; InjectAs / Inject return ErrNotResolved on a container
\* that was never successfully resolved and ErrAlreadyCleaned on a Resolved
\* and Cleaned one; in each case no factory is invoked, the tables, memoized
\* outputs and execution log stay as they are, and Inject writes no field.
C12_MisuseReported == [][C12_Step]_vars

\* C12's case: a Resolved container with a node that was never executed was
\* cleaned, and a later Resolve was refused with ErrAlreadyCleaned.
C12_Witness ==
  /\ resolved /\ cleaned
  /\ last.op = "Resolve" /\ last.err = ErrAlreadyCleaned
  /\ Len(callLog) > 0
  /\ Executed # DOMAIN providersMap

\* C13 (step part): resolved and cleaned are never reset, and on a Cleaned
\* container no call invokes a factory or a cleanup callback.
C13_Step ==
  /\ resolved => resolved'
  /\ cleaned => (cleaned' /\ callLog' = callLog /\ cleanupLog' = cleanupLog)

\* C13: the lifecycle only moves forward: over any sequence of Provide,
\* Resolve, InjectAs, Inject and Clean calls a Resolved container never
\* becomes unresolved, a Cleaned one never un-cleaned, and after Clean no
\* factory and no cleanup callback is invoked again.
C13_Forward == [][C13_Step]_vars

\* C13's case: after Clean, a request for a, whose factory never ran, was
\* refused.
C13_Witness ==
  /\ resolved /\ cleaned
  /\ last.op = "InjectAs" /\ last.arg = <<"a">>
  /\ last.err = ErrAlreadyCleaned
  /\ "a" \in DOMAIN providersMap
  /\ providersMap["a"].outValue = Nil
  /\ Len(cleanupLog) > 0

\* The last call was a Resolve that returned an error, or a request that
\* returned one.
ReturnedError ==
  /\ last.op = "Resolve" => last.err.kind \notin {"nil", "panic"}
  /\ last.op \in {"InjectAs", "Inject"} => last.err # NoErr

\* C14 as stated: once a Resolve call has failed with a configuration or a
\* cycle error the container never becomes Resolved: whatever is provided
\* afterwards, every later Resolve returns an error, every InjectAs / Inject
\* fails, and no factory is ever executed.
C14_AsStated ==
  fatal => (~resolved /\ ReturnedError /\ callLog = <<>>)

\* What remains true after a Resolve that failed with a configuration or a
\* cycle error: the container never becomes Resolved and no factory runs.
NeverResolvedAfterFatal ==
  fatal =>
    /\ ~resolved
    /\ callLog = <<>>
    /\ last.op \in {"Resolve", "InjectAs", "Inject"} => last.err # NoErr

\* A descriptor that passes the checks of its kind other than the one for
\* duplicates.
ValidBinding(b) ==
  /\ b.iface.ptr /\ b.to.ptr
  /\ b.iface.elem \in Interfaces
  /\ Implements(b.to.elem, b.iface.elem)
ValidInterfaceValue(p) ==
  /\ p.value # Nil
  /\ p.iface.elem \in Interfaces
  /\ TypeOfValue(p.value) = TypeOfArg(p.iface)

\* Descriptor k of its kind is invalid, or repeats an earlier valid one
\* without being marked IfNotExists.
BadBinding(k) ==
  LET b == bindingProviders[k] IN
  \/ ~ValidBinding(b)
  \/ /\ ~b.ifNotExists
     /\ \E j \in 1..(k - 1) :
          /\ ValidBinding(bindingProviders[j])
          /\ bindingProviders[j].iface.elem = b.iface.elem
BadValue(k) ==
  \/ valueProviders[k].v = Nil
  \/ ~valueProviders[k].ifNotExists /\ DupValue(k)
BadInterfaceValue(k) ==
  LET p == interfaceValueProviders[k] IN
  \/ ~ValidInterfaceValue(p)
  \/ /\ ~p.ifNotExists
     /\ \E j \in 1..(k - 1) :
          /\ ValidInterfaceValue(interfaceValueProviders[j])
          /\ interfaceValueProviders[j].iface = p.iface
BadFunc(k) ==
  LET fp == funcProviders[k] IN
  \/ fp.shape \notin ValidShapes
  \/ /\ ~fp.ifNotExists
     /\ \E j \in 1..(k - 1) :
          /\ funcProviders[j].shape \in ValidShapes
          /\ funcProviders[j].out = fp.out

\* How many registered descriptors are invalid or duplicates.
BadCount ==
  Cardinality({k \in 1..Len(bindingProviders) : BadBinding(k)})
  + Cardinality({k \in 1..Len(valueProviders) : BadValue(k)})
  + Cardinality({k \in 1..Len(interfaceValueProviders) : BadInterfaceValue(k)})
  + Cardinality({k \in 1..Len(funcProviders) : BadFunc(k)})

\* C15 as stated: a Resolve call scans every descriptor of every kind before
\* it fails, so the aggregated error it returns has an entry for each invalid
\* or duplicate descriptor, whatever other kinds also contain errors.
C15_AsStated ==
  (ResolveRan /\ BadCount > 0) =>
     /\ last.err.kind = "config"
     /\ Len(last.err.info) >= BadCount

\* The interface i is bound to c, a factory provides c, and nothing else
\* provides i or c.
BoundToFactory ==
  /\ resolved
  /\ "i" \in DOMAIN bindings /\ bindings["i"] = "c"
  /\ "c" \in DOMAIN providersMap
  /\ "c" \notin DOMAIN values
  /\ "i" \notin DOMAIN values \cup DOMAIN providersMap

\* C16 as stated: with a binding i -> c and a factory providing c, InjectAs
\* for i yields the memoized instance of c (of concrete type c, the one a
\* request for c returns), and c's factory is executed at most once across
\* requests for i and for c in any order.
C16_AsStated ==
  BoundToFactory =>
    /\ (last.op = "InjectAs" /\ last.arg = <<"i">> /\ last.err = NoErr) =>
          /\ last.val[1] # Nil
          /\ last.val[1] = providersMap["c"].outValue
          /\ TypeOfValue(last.val[1]) = "c"
    /\ CallsOf(callLog, "c") <= 1

\* No node has been called twice and none is in the log twice.
OnceEach ==
  \A p \in DOMAIN providersMap :
    CallsOf(callLog, p) <= 1 /\ CountOf(providerFuncs, p) <= 1

\* C17 as stated: when InjectAs / Inject calls run concurrently on a Resolved
\* container and need the same not yet executed nodes, no factory is invoked
\* more than once and no node is logged more than once (no factory having
\* failed).
C17_AsStated == Failures(callLog) = 0 => OnceEach

\* C20 as stated: also when two Clean calls run concurrently each captured
\* cleanup callback is invoked at most once (every node having been called
\* and logged once).
C20_AsStated ==
  OnceEach => \A j, k \in 1..Len(cleanupLog) :
                 j # k => cleanupLog[j] # cleanupLog[k]

\* Field j of the struct the last Inject was given is one Inject resolves.
Eligible(j) == last.arg[j].exported /\ ~last.arg[j].skip

\* Field j holds what the container holds for the field's type.
Injected(j) ==
  last.val[j] # Nil /\ last.val[j] = Memo(last.arg[j].type)

\* C18: Inject on a pointer to a struct sets every exported field that is
\* not tagged wireless:"-" to the value InjectAs returns for the field's
\* type and leaves every tagged or unexported field at its prior value; when
\* a field fails Inject returns that error, the fields before it are set and
\* the fields from it on are untouched.
C18_FieldsInjected ==
  last.op = "Inject" =>
    /\ \A j \in 1..Len(last.arg) : ~Eligible(j) => last.val[j] = Zero
    /\ last.err = NoErr =>
          \A j \in 1..Len(last.arg) : Eligible(j) => Injected(j)
    /\ last.err # NoErr =>
          \E j0 \in 1..(Len(last.arg) + 1) :
             /\ \A j \in 1..(j0 - 1) : Eligible(j) => Injected(j)
             /\ \A j \in j0..Len(last.arg) : last.val[j] = Zero
             /\ j0 <= Len(last.arg) => Eligible(j0)

\* C18's case: Inject filled the fields of types b and a and left the
\* tagged field of type c and the unexported field of type d alone, both of
\* types the container provides.
C18_Witness ==
  /\ last.op = "Inject" /\ last.err = NoErr
  /\ last.val = <<OutOf("b", 1), Zero, Zero, OutOf("a", 1)>>
  /\ "d" \in DOMAIN values
  /\ providersMap["c"].outValue # Nil

\* Only Value descriptors are registered, none of them nil, no two of one
\* type.
OnlyDistinctValues ==
  /\ Len(funcProviders) = 0
  /\ Len(bindingProviders) = 0
  /\ Len(interfaceValueProviders) = 0
  /\ \A j \in 1..Len(valueProviders) : valueProviders[j].v # Nil
  /\ \A j, k \in 1..Len(valueProviders) :
       j # k => TypeOfValue(valueProviders[j].v) # TypeOfValue(valueProviders[k].v)

\* Resolve succeeds, a request for a registered type is served with the
\* registered instance, no factory runs and the execution log stays empty.
ValuesServed ==
  /\ ResolveRan => (last.err = NoErr /\ resolved)
  /\ \A j \in 1..Len(valueProviders) :
       LET v == valueProviders[j].v IN
       /\ resolved =>
            (TypeOfValue(v) \in DOMAIN values /\ values[TypeOfValue(v)] = v)
       /\ (resolved /\ last.op = "InjectAs" /\ last.arg = <<TypeOfValue(v)>>) =>
             (last.err = NoErr /\ last.val = <<v>>)
  /\ callLog = <<>>
  /\ providerFuncs = <<>>

\* C19 as stated: for every container with only Value providers of pairwise
\* distinct types, Resolve succeeds and InjectAs for each registered type
\* returns exactly the registered instance, without invoking any factory and
\* without adding anything to the execution log.
C19_AsStated == OnlyDistinctValues => ValuesServed

\* C19 amended: for every container with only Value providers of pairwise
\* distinct types, none of them the container's own type *Injector (which
\* New registers itself), Resolve succeeds and InjectAs for each registered
\* type returns exactly the registered instance, without invoking any
\* factory and without adding anything to the execution log.
C19_ValuesOnly ==
  (/\ OnlyDistinctValues
   /\ \A j \in 1..Len(valueProviders) :
        TypeOfValue(valueProviders[j].v) # TypeInjector) => ValuesServed

\* C19's case: two values of different types are registered and a request
\* for the type d was served with the registered instance.
C19_Witness ==
  /\ OnlyDistinctValues
  /\ Len(valueProviders) = 2
  /\ resolved
  /\ last.op = "InjectAs" /\ last.arg = <<"d">>
  /\ last.val = <<ValueOf("d", 1)>>

\* The largest number of a non-empty set of numbers.
MaxOf(S) == CHOOSE x \in S : \A y \in S : y <= x

\* The depths of the dependency nodes of node p.
DepDepths(p) ==
  {providersMap[d].depth : d \in Range(providersMap[p].dependencies)}

\* C21: after a successful Resolve the depth of every node of the Provider
\* Map is 0 if the node has no dependency nodes and otherwise 1 plus the
\* largest depth of its dependency nodes; so every dependency has a strictly
\* smaller depth than the node that depends on it and no node keeps the
\* sentinel -1.
C21_Depths ==
  resolved =>
    \A p \in DOMAIN providersMap :
      /\ providersMap[p].depth =
           (IF DepDepths(p) = {} THEN 0 ELSE 1 + MaxOf(DepDepths(p)))
      /\ \A x \in DepDepths(p) : x < providersMap[p].depth
      /\ providersMap[p].depth # -1

\* C21's case: c, b and a were registered in this order, so the walk over
\* the nodes starts three times, and the depths are 0, 1 and 2.
C21_Witness ==
  /\ resolved
  /\ DOMAIN providersMap = {"a", "b", "c"}
  /\ providersMap["c"].id = 1 /\ providersMap["b"].id = 2
  /\ providersMap["c"].depth = 0
  /\ providersMap["b"].depth = 1
  /\ providersMap["a"].depth = 2

\* The nodes the request recorded in l asks for: the node found for the
\* type InjectAs was given, or for the types of the fields Inject resolves.
Requested(l) ==
  LET types == IF l.op = "InjectAs" THEN {l.arg[1]}
               ELSE IF l.op = "Inject"
               THEN {l.arg[j].type :
                       j \in {k \in 1..Len(l.arg) :
                                 l.arg[k].exported /\ ~l.arg[k].skip}}
               ELSE {}
  IN {Lookup(t).f : t \in {u \in types : Lookup(u).kind = "provider"}}

\* C22 (state part): every factory invocation found all the dependency
\* nodes of its node with an output: each of them was invoked with success
\* before, and no argument passed was an invalid value.
C22_State ==
  \A k \in 1..Len(callLog) :
    /\ \A d \in Range(providersMap[callLog[k].node].dependencies) :
         \E j \in 1..(k - 1) : callLog[j].node = d /\ callLog[j].ok
    /\ \A j \in 1..Len(callLog[k].ins) : callLog[k].ins[j] # Nil

\* C22 (step part): the nodes a request invokes are nodes it asks for or
\* nodes those depend on.
C22_Step ==
  \A k \in (Len(callLog) + 1)..Len(callLog') :
    \E r \in Requested(last') :
      callLog'[k].node = r \/ DependsOn(r, callLog'[k].node)

\* C22: during an InjectAs / Inject request a factory is invoked only when
\* every one of its dependency nodes has its memoized output (dependencies
\* execute before dependents), and the request executes only the requested
\* node and nodes it transitively depends on.
C22_DependenciesFirst == [](C22_State) /\ [][C22_Step]_vars

\* C22's case: with a, b and c resolved, a request for b invoked c and then
\* b, and a, which nobody asked for, was not invoked.
C22_Witness ==
  /\ DOMAIN providersMap = {"a", "b", "c"}
  /\ last.op = "InjectAs" /\ last.arg = <<"b">> /\ last.err = NoErr
  /\ Len(callLog) = 2
  /\ callLog[1].node = "c" /\ callLog[2].node = "b"
  /\ providersMap["a"].outValue = Nil

\* Some factory that Resolve keeps (the first one registered for its output
\* type) has an input type that no value, no factory and no binding to a
\* provided concrete type provides.
UnmetInput ==
  \E k \in 1..Len(funcProviders) :
    /\ ~DupFunc(k)
    /\ \E j \in 1..Len(funcProviders[k].inTypes) :
         LET t == funcProviders[k].inTypes[j] IN
         /\ t \notin ValueTypes
         /\ t \notin FuncOuts
         /\ \A u \in BoundTo(t) : u \notin ValueTypes /\ u \notin FuncOuts

\* The last request failed because nothing provides what it needed.
NotFound == last.err.kind \in {"injector not found", "no provider found"}

\* C23: a factory input type that no value, no factory and no binding to a
\* provided concrete type provides makes Resolve itself fail and leaves the
\* container not Resolved, whether or not the factory is ever requested; so
\* on a Resolved container every input of every node is wired, and no
\* InjectAs / Inject request for a type that has a factory fails for a
\* missing dependency.
C23_MissingAtResolve ==
  /\ (ResolveRan /\ UnmetInput) => (last.err # NoErr /\ ~resolved)
  /\ resolved =>
       \A p \in DOMAIN providersMap :
         /\ Len(providersMap[p].in) = Len(providersMap[p].inTypes)
         /\ \A j \in 1..Len(providersMap[p].in) :
              providersMap[p].in[j].kind # "unset"
  /\ (last.op = "InjectAs" /\ NotFound) =>
        Lookup(last.arg[1]).kind = "none"
  /\ (last.op = "Inject" /\ NotFound) =>
        \E j \in 1..Len(last.arg) :
           Eligible(j) /\ Lookup(last.arg[j].type).kind = "none"

\* C23's case: c and b are registered, b takes the interface i that nothing
\* binds, and Resolve failed on it before any request was made.
C23_Witness ==
  /\ UnmetInput
  /\ Len(funcProviders) = 2 /\ Len(bindingProviders) = 0
  /\ FuncOuts = {"b", "c"}
  /\ last.op = "Resolve"
  /\ last.err = Err("no provider found", <<"i">>)
  /\ ~resolved
  /\ callLog = <<>>

====
